---- MODULE Spec2Model ----
(***************************************************************************)
(* express-jobly: the dynamic SQL construction of the company and job     *)
(* models (helpers/sql.js, models/company.js, models/job.js) and the       *)
(* database calls they make.                                               *)
(*                                                                         *)
(* JavaScript values are records [t, n, s] (type tag, numeric payload,     *)
(* string payload).  A JavaScript object is the sequence of its own        *)
(* properties [k, v] in iteration order.  SQL text is a sequence of        *)
(* segments: literal text, a double-quoted identifier, or a positional     *)
(* placeholder $n; Render gives the string the code builds (runs of        *)
(* white space in the templates are written as one blank).                 *)
(***************************************************************************)
EXTENDS Integers, Sequences, FiniteSets, TLC

VARIABLES
    companies,  \* the companies table: handle -> row (column -> value)
    jobs,       \* the jobs table: id -> row
    call,       \* the model call in progress: [op, key, data, jsToSql]
    built,      \* the fragment that call built: [clause, values]
    sent,       \* the queries that call handed to db.query, in order
    outcome,    \* how that call ended: "returned" or the error thrown
    jobSeq,     \* the last id the jobs table's serial key handed out
    req,        \* the HTTP request a middleware or route is handling
    before,     \* res.locals as the middleware or route found it
    locals,     \* res.locals of that request
    steps,      \* what has run for that request, in order
    procs,      \* concurrent model calls: their position and what they did
    requests    \* how many requests the routes have taken so far

vars == <<companies, jobs, call, built, sent, outcome, jobSeq, req, before, locals,
          steps, procs, requests>>

\* What the model calls made one at a time leave alone.
others == <<jobSeq, req, before, locals, steps, procs, requests>>

(* ---------------------------------------------------------------- bounds *)

\* Largest number of own properties of an update map.
MaxKeys == 3

\* Largest number of own properties of a criteria (req.query) object.
MaxCriteria == 3

\* Largest id the jobs serial key hands out.
MaxJobId == 3

\* The requests the routes take in one behaviour.
MaxRequests == 3

(* ------------------------------------------------------ JavaScript values *)

Undefined == [t |-> "undefined", n |-> 0, s |-> ""]

NaN == [t |-> "number", n |-> 0, s |-> "NaN"]

Num(i) == [t |-> "number", n |-> i, s |-> ""]

Str(x) == [t |-> "string", n |-> 0, s |-> x]

Bool(b) == [t |-> "boolean", n |-> (IF b THEN 1 ELSE 0), s |-> ""]

\* A built-in function object, as found on Object.prototype.
NativeFunction(name) == [t |-> "function", n |-> 0, s |-> name]

\* Property names every plain object inherits from Object.prototype.
ObjectPrototypeKeys ==
    {"constructor", "toString", "valueOf", "hasOwnProperty",
     "isPrototypeOf", "propertyIsEnumerable", "toLocaleString",
     "__defineGetter__", "__defineSetter__", "__lookupGetter__",
     "__lookupSetter__", "__proto__"}

\* An object as a value: what the __proto__ accessor of a plain object gives.
ObjectValue(name) == [t |-> "object", n |-> 0, s |-> name]

ObjectPrototype(k) ==
    CASE k = "constructor" -> NativeFunction("Object")
      [] k = "__proto__"   -> ObjectValue("Object.prototype")
      [] OTHER             -> NativeFunction(k)

\* One own property of an object.
Prop(k, v) == [k |-> k, v |-> v]

\* Object.keys(o): the own property names in iteration order.
ObjectKeys(o) == [i \in 1..Len(o) |-> o[i].k]

\* Object.values(o): the own property values in the same order.
ObjectValues(o) == [i \in 1..Len(o) |-> o[i].v]

HasOwn(o, k) == \E i \in 1..Len(o) : o[i].k = k

\* o[k]: own property, else the prototype chain, else undefined.
Get(o, k) ==
    IF HasOwn(o, k) THEN o[CHOOSE i \in 1..Len(o) : o[i].k = k].v
    ELSE IF k \in ObjectPrototypeKeys THEN ObjectPrototype(k)
    ELSE Undefined

\* k in o
In(k, o) == HasOwn(o, k) \/ k \in ObjectPrototypeKeys

\* Truthiness, as `||` and `if` test it.
ToBoolean(v) ==
    CASE v.t = "undefined" -> FALSE
      [] v.t = "number"    -> v.s # "NaN" /\ v.n # 0
      [] v.t = "string"    -> v.s # ""
      [] v.t = "boolean"   -> v.n = 1
      [] OTHER             -> TRUE

\* a || b
Or(a, b) == IF ToBoolean(a) THEN a ELSE b

\* String(v), as a template literal `${v}` converts.
ToStr(v) ==
    CASE v.t = "undefined" -> "undefined"
      [] v.t = "number"    -> (IF v.s = "NaN" THEN "NaN" ELSE ToString(v.n))
      [] v.t = "string"    -> v.s
      [] v.t = "boolean"   -> (IF v.n = 1 THEN "true" ELSE "false")
      [] v.t = "object"    -> "[object Object]"
      [] OTHER             -> "function " \o v.s \o "() { [native code] }"

\* The decimal numerals Number() is asked to read in this model.
Numerals == 0..60

\* Number(v)
ToNumber(v) ==
    CASE v.t = "undefined" -> NaN
      [] v.t = "number"    -> v
      [] v.t = "boolean"   -> Num(v.n)
      [] v.t = "string"    ->
            (IF v.s = "" THEN Num(0)
             ELSE IF \E i \in Numerals : ToString(i) = v.s
                  THEN Num(CHOOSE i \in Numerals : ToString(i) = v.s)
                  ELSE NaN)
      [] OTHER             -> NaN

\* a > b on numbers: false as soon as one side is NaN.
GreaterThan(a, b) == a.s # "NaN" /\ b.s # "NaN" /\ a.n > b.n

\* a === b
StrictEquals(a, b) == a = b /\ a # NaN

(* --------------------------------------------------------------- SQL text *)

Lit(x) == [kind |-> "lit", s |-> x, n |-> 0]

\* "<name>": an identifier in double quotes.
Ident(x) == [kind |-> "ident", s |-> x, n |-> 0]

\* $<i>: a positional placeholder.
Ph(i) == [kind |-> "ph", s |-> "$", n |-> i]

RenderSegment(g) ==
    CASE g.kind = "lit"   -> g.s
      [] g.kind = "ident" -> "\"" \o g.s \o "\""
      [] OTHER            -> g.s \o ToString(g.n)

RECURSIVE Render(_)
Render(text) ==
    IF text = <<>> THEN ""
    ELSE RenderSegment(Head(text)) \o Render(Tail(text))

\* Array.prototype.join on an array of SQL fragments.
RECURSIVE Join(_, _)
Join(parts, sep) ==
    IF parts = <<>> THEN <<>>
    ELSE IF Len(parts) = 1 THEN parts[1]
    ELSE parts[1] \o <<Lit(sep)>> \o Join(Tail(parts), sep)

\* The placeholder numbers of a text, left to right.
Placeholders(text) ==
    LET F[i \in 0..Len(text)] ==
          IF i = 0 THEN <<>>
          ELSE IF text[i].kind = "ph" THEN Append(F[i - 1], text[i].n)
          ELSE F[i - 1]
    IN  F[Len(text)]

(* ---------------------------------------------------- helpers/sql.js *)

\* A builder result: a thrown error, or { setCols, values }.
Threw(e) == [error |-> e, setCols |-> <<>>, values |-> <<>>]

\* Mutant: the placeholder takes the 0-based index.
ColumnAssignment_ZeroBased(jsToSql, colName, idx) ==
    <<Ident(ToStr(Or(Get(jsToSql, colName), Str(colName)))), Lit("="), Ph(idx)>>

\* `"${jsToSql[colName] || colName}"=$${idx + 1}`
ColumnAssignment(jsToSql, colName, idx) ==
    <<Ident(ToStr(Or(Get(jsToSql, colName), Str(colName)))), Lit("="), Ph(idx + 1)>>

\* Mutant: the empty-map check is missing.
sqlForPartialUpdate_NoEmptyCheck(dataToUpdate, jsToSql) ==
    LET keys == ObjectKeys(dataToUpdate)
        cols == [i \in 1..Len(keys) |-> ColumnAssignment(jsToSql, keys[i], i - 1)]
    IN  [error   |-> "",
         setCols |-> Join(cols, ", "),
         values  |-> ObjectValues(dataToUpdate)]

sqlForPartialUpdate(dataToUpdate, jsToSql) ==
    LET keys == ObjectKeys(dataToUpdate)
        cols == [i \in 1..Len(keys) |-> ColumnAssignment(jsToSql, keys[i], i - 1)]
    IN  IF Len(keys) = 0 THEN Threw("BadRequestError")
        ELSE [error   |-> "",
              setCols |-> Join(cols, ", "),
              values  |-> ObjectValues(dataToUpdate)]

(* ------------------------------------------------------------ database *)

\* What db.query receives: the SQL text and the positional parameters.
Query(text, params) == [sql |-> text, params |-> params]

CompanyColumns == {"name", "description", "num_employees", "logo_url"}

JobColumns == {"title", "salary", "equity", "company_handle"}

\* The driver binds params[n] to $n: the text must use exactly $1..$len(params).
BindOk(q) ==
    {q.sql[i].n : i \in {j \in 1..Len(q.sql) : q.sql[j].kind = "ph"}}
        = 1..Len(q.params)

AssignAt(text, i) ==
    /\ text[i].kind = "ident"
    /\ i + 2 <= Len(text)
    /\ text[i + 1] = Lit("=")
    /\ text[i + 2].kind = "ph"

\* The "<column>"=$n assignments of an UPDATE's SET list.
SetList(text) ==
    {[col |-> text[i].s, ph |-> text[i + 2].n] :
        i \in {j \in 1..Len(text) : AssignAt(text, j)}}

\* UPDATE <table> SET ... WHERE <key> = $k RETURNING ...: the database's answer,
\* [error, rows, table]; rows holds the key of the row updated, if any.
ExecUpdate(table, columns, whereLit, q) ==
    LET set == SetList(q.sql)
        w   == CHOOSE i \in 1..Len(q.sql) : q.sql[i] = Lit(whereLit)
        key == q.params[q.sql[w + 1].n]
        new == [c \in columns |->
                  IF \E a \in set : a.col = c
                  THEN q.params[(CHOOSE a \in set : a.col = c).ph]
                  ELSE table[key][c]]
    IN  IF ~BindOk(q) \/ \E a \in set : a.col \notin columns
        THEN [error |-> "DatabaseError", rows |-> <<>>, table |-> table]
        ELSE IF key \in DOMAIN table
        THEN [error |-> "", rows |-> <<key>>,
              table |-> [h \in DOMAIN table |-> IF h = key THEN new ELSE table[h]]]
        ELSE [error |-> "", rows |-> <<>>, table |-> table]

\* SELECT ...: reads only (the rows returned are not part of the state).
ExecSelect(q) == IF BindOk(q) THEN "" ELSE "DatabaseError"

(* ------------------------------------------------- models/company.js *)

\* What one model call did: the fragment it built ([clause, values]), the
\* queries it handed to db.query, how it ended, and the table it wrote.
Result(clause, values, queries, status, table) ==
    [clause |-> clause, values |-> values, sent |-> queries,
     status |-> status, table |-> table]

\* whereConditions.push(cond); values.push(value)
Push(acc, cond, value) ==
    [conds |-> Append(acc.conds, cond), values |-> Append(acc.values, value)]

\* Mutant: the keyword is written even when no condition was pushed.
WhereClause_Always(conds) == <<Lit("WHERE ")>> \o Join(conds, " AND ")

\* whereConditions.length > 0 ? 'WHERE ' + whereConditions.join(' AND ') : ''
WhereClause(conds) ==
    IF Len(conds) > 0 THEN <<Lit("WHERE ")>> \o Join(conds, " AND ") ELSE <<>>

\* Mutant: the check is written !(min <= max), which NaN also satisfies.
RangeRejected_NotLessEqual(queries) ==
    LET min == ToNumber(Get(queries, "minEmployees"))
        max == ToNumber(Get(queries, "maxEmployees"))
    IN  ~(min.s # "NaN" /\ max.s # "NaN" /\ min.n <= max.n)

\* Mutant: the comparison is written the other way round.
RangeRejected_Reversed(queries) ==
    GreaterThan(ToNumber(Get(queries, "maxEmployees")),
                ToNumber(Get(queries, "minEmployees")))

\* The range check Company.findAll makes first.
RangeRejected(queries) ==
    GreaterThan(ToNumber(Get(queries, "minEmployees")),
                ToNumber(Get(queries, "maxEmployees")))

\* Mutant: the maxEmployees block comes before the minEmployees block.
CompanyFilter_MaxFirst(queries) ==
    LET a0 == [conds |-> <<>>, values |-> <<>>]
        a1 == IF In("name", queries)
              THEN Push(a0, <<Lit("name ILIKE '%' || "), Ph(Len(a0.values) + 1),
                              Lit(" || '%'")>>, Get(queries, "name"))
              ELSE a0
        a2 == IF In("maxEmployees", queries)
              THEN Push(a1, <<Lit("num_employees <= "), Ph(Len(a1.values) + 1)>>,
                        Get(queries, "maxEmployees"))
              ELSE a1
        a3 == IF In("minEmployees", queries)
              THEN Push(a2, <<Lit("num_employees >= "), Ph(Len(a2.values) + 1)>>,
                        Get(queries, "minEmployees"))
              ELSE a2
    IN  a3

\* Mutant: each block writes a fixed placeholder number instead of
\* values.length + 1.
CompanyFilter_FixedNumbering(queries) ==
    LET a0 == [conds |-> <<>>, values |-> <<>>]
        a1 == IF In("name", queries)
              THEN Push(a0, <<Lit("name ILIKE '%' || "), Ph(1), Lit(" || '%'")>>,
                        Get(queries, "name"))
              ELSE a0
        a2 == IF In("minEmployees", queries)
              THEN Push(a1, <<Lit("num_employees >= "), Ph(2)>>,
                        Get(queries, "minEmployees"))
              ELSE a1
        a3 == IF In("maxEmployees", queries)
              THEN Push(a2, <<Lit("num_employees <= "), Ph(3)>>,
                        Get(queries, "maxEmployees"))
              ELSE a2
    IN  a3

\* The three `if ("<key>" in queries)` blocks of Company.findAll, in order.
CompanyFilter(queries) ==
    LET a0 == [conds |-> <<>>, values |-> <<>>]
        a1 == IF In("name", queries)
              THEN Push(a0, <<Lit("name ILIKE '%' || "), Ph(Len(a0.values) + 1),
                              Lit(" || '%'")>>, Get(queries, "name"))
              ELSE a0
        a2 == IF In("minEmployees", queries)
              THEN Push(a1, <<Lit("num_employees >= "), Ph(Len(a1.values) + 1)>>,
                        Get(queries, "minEmployees"))
              ELSE a1
        a3 == IF In("maxEmployees", queries)
              THEN Push(a2, <<Lit("num_employees <= "), Ph(Len(a2.values) + 1)>>,
                        Get(queries, "maxEmployees"))
              ELSE a2
    IN  a3

CompanyFindAll(queries) ==
    LET f     == CompanyFilter(queries)
        where == WhereClause(f.conds)
        q     == Query(<<Lit("SELECT handle, name, description, num_employees AS \"numEmployees\", logo_url AS \"logoUrl\" FROM companies ")>>
                       \o where \o <<Lit(" ORDER BY name")>>,
                       f.values)
        err   == ExecSelect(q)
    IN  IF RangeRejected(queries)
        THEN Result(<<>>, <<>>, <<>>, "BadRequestError", companies)
        ELSE Result(where, f.values, <<q>>,
                    IF err = "" THEN "returned" ELSE err, companies)

CompanyJsToSql ==
    <<[k |-> "numEmployees", v |-> Str("num_employees")],
      [k |-> "logoUrl", v |-> Str("logo_url")]>>

\* Mutant: the row's placeholder reuses the last number of the SET list.
CompanyHandleVarIdx_Reused(values) == Ph(Len(values))

\* "$" + (values.length + 1)
CompanyHandleVarIdx(values) == Ph(Len(values) + 1)

CompanyUpdate(handle, data) ==
    LET b   == sqlForPartialUpdate(data, CompanyJsToSql)
        handleVarIdx == CompanyHandleVarIdx(b.values)
        q   == Query(<<Lit("UPDATE companies SET ")>> \o b.setCols
                     \o <<Lit(" WHERE handle = "), handleVarIdx,
                          Lit(" RETURNING handle, name, description, num_employees AS \"numEmployees\", logo_url AS \"logoUrl\"")>>,
                     b.values \o <<handle>>)
        r   == ExecUpdate(companies, CompanyColumns, " WHERE handle = ", q)
    IN  IF b.error # ""
        THEN Result(<<>>, <<>>, <<>>, b.error, companies)
        ELSE Result(b.setCols, b.values, <<q>>,
                    IF r.error # "" THEN r.error
                    ELSE IF r.rows = <<>> THEN "NotFoundError" ELSE "returned",
                    r.table)

(* ----------------------------------------------------- models/job.js *)

\* Mutant: the equity block binds the flag itself.
JobFilter_BindsFlag(queries) ==
    LET a0 == [conds |-> <<>>, values |-> <<>>]
        a1 == IF In("title", queries)
              THEN Push(a0, <<Lit("title ILIKE '%' || "), Ph(Len(a0.values) + 1),
                              Lit(" || '%'")>>, Get(queries, "title"))
              ELSE a0
        a2 == IF In("minSalary", queries)
              THEN Push(a1, <<Lit("salary >= "), Ph(Len(a1.values) + 1)>>,
                        Get(queries, "minSalary"))
              ELSE a1
        a3 == IF In("hasEquity", queries)
                 /\ StrictEquals(Get(queries, "hasEquity"), Bool(TRUE))
              THEN Push(a2, <<Lit("equity > "), Ph(Len(a2.values) + 1)>>,
                        Get(queries, "hasEquity"))
              ELSE a2
    IN  a3

\* Mutant: the equity block does not look at the flag's value.
JobFilter_AnyValue(queries) ==
    LET a0 == [conds |-> <<>>, values |-> <<>>]
        a1 == IF In("title", queries)
              THEN Push(a0, <<Lit("title ILIKE '%' || "), Ph(Len(a0.values) + 1),
                              Lit(" || '%'")>>, Get(queries, "title"))
              ELSE a0
        a2 == IF In("minSalary", queries)
              THEN Push(a1, <<Lit("salary >= "), Ph(Len(a1.values) + 1)>>,
                        Get(queries, "minSalary"))
              ELSE a1
        a3 == IF In("hasEquity", queries)
              THEN Push(a2, <<Lit("equity > "), Ph(Len(a2.values) + 1)>>, Num(0))
              ELSE a2
    IN  a3

\* The three filter blocks of Job.findAll, in order.
JobFilter(queries) ==
    LET a0 == [conds |-> <<>>, values |-> <<>>]
        a1 == IF In("title", queries)
              THEN Push(a0, <<Lit("title ILIKE '%' || "), Ph(Len(a0.values) + 1),
                              Lit(" || '%'")>>, Get(queries, "title"))
              ELSE a0
        a2 == IF In("minSalary", queries)
              THEN Push(a1, <<Lit("salary >= "), Ph(Len(a1.values) + 1)>>,
                        Get(queries, "minSalary"))
              ELSE a1
        a3 == IF In("hasEquity", queries)
                 /\ StrictEquals(Get(queries, "hasEquity"), Bool(TRUE))
              THEN Push(a2, <<Lit("equity > "), Ph(Len(a2.values) + 1)>>, Num(0))
              ELSE a2
    IN  a3

JobFindAll(queries) ==
    LET f     == JobFilter(queries)
        where == WhereClause(f.conds)
        q     == Query(<<Lit("SELECT id, title, salary, equity, company_handle AS \"companyHandle\" FROM jobs ")>>
                       \o where \o <<Lit(" ORDER BY id")>>,
                       f.values)
        err   == ExecSelect(q)
    IN  Result(where, f.values, <<q>>, IF err = "" THEN "returned" ELSE err, jobs)

JobJsToSql == <<[k |-> "companyHandle", v |-> Str("company_handle")]>>

\* "$" + (values.length + 1)
JobHandleVarIdx(values) == Ph(Len(values) + 1)

JobUpdate(id, data) ==
    LET b   == sqlForPartialUpdate(data, JobJsToSql)
        handleVarIdx == JobHandleVarIdx(b.values)
        q   == Query(<<Lit("UPDATE jobs SET ")>> \o b.setCols
                     \o <<Lit(" WHERE id = "), handleVarIdx,
                          Lit(" RETURNING id, title, salary, equity, company_handle AS \"companyHandle\"")>>,
                     b.values \o <<id>>)
        r   == ExecUpdate(jobs, JobColumns, " WHERE id = ", q)
    IN  IF b.error # ""
        THEN Result(<<>>, <<>>, <<>>, b.error, jobs)
        ELSE Result(b.setCols, b.values, <<q>>,
                    IF r.error # "" THEN r.error
                    ELSE IF r.rows = <<>> THEN "NotFoundError" ELSE "returned",
                    r.table)

(* ------------------------------- database: lookups, inserts and deletes *)

\* How the jobs table's reference to companies answers the deletion of a
\* company that still has jobs: the schema is not part of these sources, so
\* both answers of a foreign key are allowed.
ForeignKeyModes == {"cascade", "restrict"}

\* SELECT ... FROM <table> WHERE <key> = $1: the keys of the rows found.
SelectByKey(table, q) ==
    IF q.params[1] \in DOMAIN table THEN <<q.params[1]>> ELSE <<>>

\* The ids of the jobs whose company_handle is h.
JobsOf(js, h) == {i \in DOMAIN js : js[i]["company_handle"] = h}

\* INSERT INTO companies (handle, name, description, num_employees, logo_url)
\* VALUES ($1, $2, $3, $4, $5): [error, table]; the handle is the primary key.
ExecInsertCompany(table, q) ==
    LET h   == q.params[1]
        row == [c \in CompanyColumns |->
                  CASE c = "name"          -> q.params[2]
                    [] c = "description"   -> q.params[3]
                    [] c = "num_employees" -> q.params[4]
                    [] OTHER               -> q.params[5]]
    IN  IF ~BindOk(q) \/ h \in DOMAIN table
        THEN [error |-> "DatabaseError", table |-> table]
        ELSE [error |-> "",
              table |-> [k \in DOMAIN table \cup {h} |->
                           IF k = h THEN row ELSE table[k]]]

\* INSERT INTO jobs (title, salary, equity, company_handle) VALUES ($1..$4):
\* [error, table]; the row takes the next id of the serial key, and
\* company_handle must name a company.
ExecInsertJob(table, cs, seq, q) ==
    LET id  == Num(seq + 1)
        row == [c \in JobColumns |->
                  CASE c = "title"  -> q.params[1]
                    [] c = "salary" -> q.params[2]
                    [] c = "equity" -> q.params[3]
                    [] OTHER        -> q.params[4]]
    IN  IF ~BindOk(q) \/ q.params[4] \notin DOMAIN cs
        THEN [error |-> "DatabaseError", table |-> table]
        ELSE [error |-> "",
              table |-> [k \in DOMAIN table \cup {id} |->
                           IF k = id THEN row ELSE table[k]]]

\* DELETE FROM companies WHERE handle = $1 RETURNING handle:
\* [error, rows, companies, jobs].
ExecDeleteCompany(cs, js, fk, q) ==
    LET h == q.params[1]
    IN  IF h \notin DOMAIN cs
        THEN [error |-> "", rows |-> <<>>, companies |-> cs, jobs |-> js]
        ELSE IF JobsOf(js, h) # {} /\ fk = "restrict"
        THEN [error |-> "DatabaseError", rows |-> <<>>, companies |-> cs, jobs |-> js]
        ELSE [error |-> "", rows |-> <<h>>,
              companies |-> [k \in DOMAIN cs \ {h} |-> cs[k]],
              jobs |-> [i \in DOMAIN js \ JobsOf(js, h) |-> js[i]]]

\* DELETE FROM jobs WHERE id = $1 RETURNING id: [rows, table].
ExecDeleteJob(table, q) ==
    LET id == q.params[1]
    IN  IF id \in DOMAIN table
        THEN [rows |-> <<id>>, table |-> [i \in DOMAIN table \ {id} |-> table[i]]]
        ELSE [rows |-> <<>>, table |-> table]

(* ------------------------- models/company.js: create, get and remove *)

\* What one of these calls did: the queries it handed to db.query, how it
\* ended, and the two tables after it.
Done(queries, status, cs, js) ==
    [sent |-> queries, status |-> status, companies |-> cs, jobs |-> js]

InsertCompanyHead ==
    Lit("INSERT INTO companies (handle, name, description, num_employees, logo_url) VALUES (")

InsertJobHead ==
    Lit("INSERT INTO jobs (title, salary, equity, company_handle) VALUES (")

\* Whether a query is an INSERT.
IsInsert(q) == q.sql[1] \in {InsertCompanyHead, InsertJobHead}

\* The INSERTs among the queries sent.
Inserts(queries) == {i \in 1..Len(queries) : IsInsert(queries[i])}

\* The INSERTs INTO jobs among the queries sent: each takes a value of the
\* serial key.
JobInserts(queries) == {i \in Inserts(queries) : queries[i].sql[1] = InsertJobHead}

DuplicateCheckQuery(handle) ==
    Query(<<Lit("SELECT handle FROM companies WHERE handle = "), Ph(1)>>, <<handle>>)

InsertCompanyQuery(data) ==
    Query(<<InsertCompanyHead,
            Ph(1), Lit(", "), Ph(2), Lit(", "), Ph(3), Lit(", "), Ph(4), Lit(", "), Ph(5),
            Lit(") RETURNING handle, name, description, num_employees AS \"numEmployees\", logo_url AS \"logoUrl\"")>>,
          <<Get(data, "handle"), Get(data, "name"), Get(data, "description"),
            Get(data, "numEmployees"), Get(data, "logoUrl")>>)

\* The answers the database may give to `ORDER BY salary` for the rows ids of
\* the jobs table: the salaries never decrease, and rows of equal salary come
\* in whatever order.
OrderBySalary(js, ids) ==
    {rows \in [1..Cardinality(ids) -> ids] :
        \A i, j \in 1..Cardinality(ids) :
            i < j => /\ rows[i] # rows[j]
                     /\ js[rows[i]]["salary"].n <= js[rows[j]]["salary"].n}

\* A method with two awaits, up to the first: the query it sent and the rows
\* the database answered with.
Awaiting(queries, rows) == [sent |-> queries, rows |-> rows]

\* Company.create up to `await db.query(SELECT ...)`.
CompanyCreateFirst(data) ==
    LET q1 == DuplicateCheckQuery(Get(data, "handle"))
    IN  Awaiting(<<q1>>, SelectByKey(companies, q1))

\* Company.create from the answer to the duplicate check on: the test of its
\* rows, then the INSERT, answered from the table as it is by then.
CompanyCreateRest(data, duplicateCheck, queries) ==
    LET q2 == InsertCompanyQuery(data)
        r  == ExecInsertCompany(companies, q2)
    IN  IF duplicateCheck # <<>>
        THEN Done(queries, "BadRequestError", companies, jobs)
        ELSE Done(Append(queries, q2), IF r.error # "" THEN r.error ELSE "returned",
                  r.table, jobs)

\* Company.get up to its first await: the SELECT on jobs, with each answer
\* the database may give.
CompanyGetFirst(handle) ==
    LET q1 == Query(<<Lit("SELECT id, title, salary, equity FROM jobs WHERE company_handle = "),
                      Ph(1), Lit(" ORDER BY salary")>>, <<handle>>)
    IN  {Awaiting(<<q1>>, rows) : rows \in OrderBySalary(jobs, JobsOf(jobs, handle))}

\* Company.get from the answer to the first query on: the SELECT on
\* companies, then `company.jobs = jobs`, then `if (!company)`.
CompanyGetRest(handle, jobsRows, queries) ==
    LET q2 == Query(<<Lit("SELECT handle, name, description, num_employees AS \"numEmployees\", logo_url AS \"logoUrl\" FROM companies WHERE handle = "),
                      Ph(1)>>, <<handle>>)
        companyRes == SelectByKey(companies, q2)
    IN  Done(Append(queries, q2),
             \* rows[0] is undefined when no row came back: writing its jobs
             \* property throws TypeError before the test is reached.
             IF companyRes = <<>> THEN "TypeError" ELSE "returned",
             companies, jobs)

CompanyRemove(handle, fk) ==
    LET q == Query(<<Lit("DELETE FROM companies WHERE handle = "), Ph(1),
                     Lit(" RETURNING handle")>>, <<handle>>)
        r == ExecDeleteCompany(companies, jobs, fk, q)
    IN  Done(<<q>>,
             IF r.error # "" THEN r.error
             ELSE IF r.rows = <<>> THEN "NotFoundError" ELSE "returned",
             r.companies, r.jobs)

(* ----------------------------- models/job.js: create, get and remove *)

CompanyLookupQuery(companyHandle) ==
    Query(<<Lit("SELECT handle FROM companies WHERE handle = "), Ph(1)>>,
          <<companyHandle>>)

InsertJobQuery(data) ==
    Query(<<InsertJobHead,
            Ph(1), Lit(", "), Ph(2), Lit(", "), Ph(3), Lit(", "), Ph(4),
            Lit(") RETURNING id, title, salary, equity, company_handle AS \"companyHandle\"")>>,
          <<Get(data, "title"), Get(data, "salary"), Get(data, "equity"),
            Get(data, "companyHandle")>>)

\* Job.create up to its first await: the company lookup.
JobCreateFirst(data) ==
    LET q1 == CompanyLookupQuery(Get(data, "companyHandle"))
    IN  Awaiting(<<q1>>, SelectByKey(companies, q1))

\* Mutant: the rows of the lookup are not tested.
JobCreateRest_NoTest(data, companyRes, queries) ==
    LET q2 == InsertJobQuery(data)
        r  == ExecInsertJob(jobs, companies, jobSeq, q2)
    IN  Done(Append(queries, q2), IF r.error # "" THEN r.error ELSE "returned",
             companies, r.table)

\* Job.create from the answer to the lookup on: the test of its rows, then
\* the INSERT, answered from the tables as they are by then.
JobCreateRest(data, companyRes, queries) ==
    LET q2 == InsertJobQuery(data)
        r  == ExecInsertJob(jobs, companies, jobSeq, q2)
    IN  IF companyRes = <<>>
        THEN Done(queries, "NotFoundError", companies, jobs)
        ELSE Done(Append(queries, q2), IF r.error # "" THEN r.error ELSE "returned",
                  companies, r.table)

JobGet(id) ==
    LET q == Query(<<Lit("SELECT id, title, salary, equity, company_handle AS \"companyHandle\" FROM jobs WHERE id = "),
                     Ph(1)>>, <<id>>)
    IN  Done(<<q>>, IF SelectByKey(jobs, q) = <<>> THEN "NotFoundError" ELSE "returned",
             companies, jobs)

JobRemove(id) ==
    LET q == Query(<<Lit("DELETE FROM jobs WHERE id = "), Ph(1), Lit(" RETURNING id")>>,
                   <<id>>)
        r == ExecDeleteJob(jobs, q)
    IN  Done(<<q>>, IF r.rows = <<>> THEN "NotFoundError" ELSE "returned",
             companies, r.table)

(* ------------------------------------------------- middleware/auth.js *)

\* res.locals: {} or { user }.
Locals(hasUser, user) == [hasUser |-> hasUser, user |-> user]

NoLocals == Locals(FALSE, <<>>)

\* res.locals.user?.<k>
UserField(loc, k) == IF loc.hasUser THEN Get(loc.user, k) ELSE Undefined

\* A request: headers may be missing altogether (`req = {}`); the
\* authorization header is kept as the pieces of its text, left to right.
Request(hasHeaders, hasAuthorization, authorization, params) ==
    [hasHeaders |-> hasHeaders, hasAuthorization |-> hasAuthorization,
     authorization |-> authorization, params |-> params]

SECRET_KEY == "secret-dev"

\* The tokens of the middleware tests and one for an administrator: the
\* payload each was signed over (jwt.sign adds iat) and the key it was signed
\* with.
SignedTokens ==
    {[text |-> "testJwt", key |-> SECRET_KEY,
      payload |-> <<Prop("username", Str("test")), Prop("isAdmin", Bool(FALSE)),
                    Prop("iat", Num(1))>>],
     [text |-> "adminJwt", key |-> SECRET_KEY,
      payload |-> <<Prop("username", Str("admin")), Prop("isAdmin", Bool(TRUE)),
                    Prop("iat", Num(1))>>],
     [text |-> "badJwt", key |-> "wrong",
      payload |-> <<Prop("username", Str("test")), Prop("isAdmin", Bool(FALSE)),
                    Prop("iat", Num(1))>>]}

\* req.headers?.authorization: <<>> stands for undefined and for "".
AuthHeader(r) ==
    IF r.hasHeaders /\ r.hasAuthorization THEN r.authorization ELSE <<>>

\* .replace(/^[Bb]earer /, "")
StripBearer(parts) ==
    IF parts # <<>> /\ parts[1] \in {"Bearer ", "bearer "} THEN Tail(parts) ELSE parts

RECURSIVE TrimStart(_)
TrimStart(parts) ==
    IF parts # <<>> /\ parts[1] = " " THEN TrimStart(Tail(parts)) ELSE parts

RECURSIVE TrimEnd(_)
TrimEnd(parts) ==
    IF parts # <<>> /\ parts[Len(parts)] = " "
    THEN TrimEnd(SubSeq(parts, 1, Len(parts) - 1)) ELSE parts

\* .trim()
Trim(parts) == TrimEnd(TrimStart(parts))

\* jwt.verify(token, key): [ok, payload]; it throws (ok = FALSE) unless the
\* text is a token signed with that key.
JwtVerify(token, key) ==
    IF Len(token) = 1 /\ \E t \in SignedTokens : t.text = token[1] /\ t.key = key
    THEN [ok |-> TRUE,
          payload |-> (CHOOSE t \in SignedTokens : t.text = token[1]).payload]
    ELSE [ok |-> FALSE, payload |-> <<>>]

\* What a middleware did: res.locals after it, the calls of next it made and
\* how it ended ("returned", or the error it threw).
Ran(loc, nexts, status) == [locals |-> loc, steps |-> nexts, status |-> status]

\* Mutant: the payload is stored without verifying the signature.
AuthenticateJWT_Unverified(r, loc) ==
    LET authHeader == AuthHeader(r)
        token == Trim(StripBearer(authHeader))
    IN  IF authHeader # <<>> /\ Len(token) = 1
           /\ \E t \in SignedTokens : t.text = token[1]
        THEN Ran(Locals(TRUE, (CHOOSE t \in SignedTokens : t.text = token[1]).payload),
                 <<"next()">>, "returned")
        ELSE Ran(loc, <<"next()">>, "returned")

AuthenticateJWT(r, loc) ==
    LET authHeader == AuthHeader(r)
        token == Trim(StripBearer(authHeader))
        v == JwtVerify(token, SECRET_KEY)
    IN  IF authHeader # <<>> /\ v.ok
        THEN Ran(Locals(TRUE, v.payload), <<"next()">>, "returned")
        ELSE Ran(loc, <<"next()">>, "returned")

EnsureLoggedIn(loc) ==
    IF ToBoolean(UserField(loc, "username"))
    THEN Ran(loc, <<"next()">>, "returned")
    ELSE Ran(loc, <<>>, "UnauthorizedError")

\* Mutant: any truthy isAdmin passes.
IsAdmin_Truthy(loc) ==
    IF ~ToBoolean(UserField(loc, "isAdmin"))
    THEN Ran(loc, <<>>, "UnauthorizedError")
    ELSE Ran(loc, <<"next()">>, "returned")

IsAdmin(loc) ==
    IF ~StrictEquals(UserField(loc, "isAdmin"), Bool(TRUE))
    THEN Ran(loc, <<>>, "UnauthorizedError")
    ELSE Ran(loc, <<"next()">>, "returned")

\* Mutant: both the username and the administrator flag are required.
IsAdminOrCurrentUser_Both(r, loc) ==
    IF ~loc.hasUser THEN Ran(loc, <<>>, "UnauthorizedError")
    ELSE IF ~StrictEquals(Get(loc.user, "username"), Get(r.params, "username"))
            \/ ~StrictEquals(Get(loc.user, "isAdmin"), Bool(TRUE))
    THEN Ran(loc, <<>>, "UnauthorizedError")
    ELSE Ran(loc, <<"next()">>, "returned")

IsAdminOrCurrentUser(r, loc) ==
    IF ~loc.hasUser THEN Ran(loc, <<>>, "UnauthorizedError")
    ELSE IF ~StrictEquals(Get(loc.user, "username"), Get(r.params, "username"))
            /\ ~StrictEquals(Get(loc.user, "isAdmin"), Bool(TRUE))
    THEN Ran(loc, <<>>, "UnauthorizedError")
    ELSE Ran(loc, <<"next()">>, "returned")

(* ------------------------------------------ routes/companies.js, jobs.js *)

\* The request schemas: which keys an instance may hold, of which type, and
\* which it must hold.
SchemaFields(schema) ==
    CASE schema = "companyNew" ->
            {Prop("handle", "string"), Prop("name", "string"),
             Prop("description", "string"), Prop("numEmployees", "integer"),
             Prop("logoUrl", "string")}
      [] schema = "companyUpdate" ->
            {Prop("name", "string"), Prop("description", "string"),
             Prop("numEmployees", "integer"), Prop("logoUrl", "string")}
      [] schema = "getCompanies" ->
            {Prop("name", "string"), Prop("minEmployees", "integer"),
             Prop("maxEmployees", "integer")}
      [] schema = "jobNew" ->
            {Prop("title", "string"), Prop("salary", "integer"),
             Prop("equity", "string"), Prop("companyHandle", "string")}
      [] schema = "jobUpdate" ->
            {Prop("title", "string"), Prop("salary", "integer"),
             Prop("equity", "string")}
      [] OTHER ->
            {Prop("title", "string"), Prop("minSalary", "integer"),
             Prop("hasEquity", "boolean")}

SchemaRequired(schema) ==
    CASE schema = "companyNew" -> {"handle", "name", "description"}
      [] schema = "jobNew"     -> {"title", "companyHandle"}
      [] OTHER                 -> {}

TypeOk(type, v) ==
    CASE type = "string"  -> v.t = "string"
      [] type = "integer" -> v.t = "number" /\ v.s # "NaN"
      [] OTHER            -> v.t = "boolean"

\* jsonschema.validate(instance, schema, { required: true }).valid
Valid(instance, schema) ==
    /\ \A i \in 1..Len(instance) :
          \E f \in SchemaFields(schema) :
              f.k = instance[i].k /\ TypeOk(f.v, instance[i].v)
    /\ \A k \in SchemaRequired(schema) : HasOwn(instance, k)

\* o[k] = v
Set(o, k, v) ==
    IF HasOwn(o, k)
    THEN [i \in 1..Len(o) |-> IF o[i].k = k THEN Prop(k, v) ELSE o[i]]
    ELSE Append(o, Prop(k, v))

\* What a handler did: its steps in order and the outcome of the last.
Handled(did, d) ==
    [steps |-> did, sent |-> d.sent, status |-> d.status,
     companies |-> d.companies, jobs |-> d.jobs]

\* A Company method's result as the outcome of a handler.
OfCompany(r) == Done(r.sent, r.status, r.table, jobs)

\* A Job method's result as the outcome of a handler.
OfJob(r) == Done(r.sent, r.status, companies, r.table)

\* The handler stops with an error of its own.
Stopped(status) == Done(<<>>, status, companies, jobs)

\* The guards of a mutating route, in the order the route lists them:
\* ensureLoggedIn, then isAdmin.
\* Mutant: the route lists ensureLoggedIn alone.
Guards_LoginOnly(loc) ==
    LET a == EnsureLoggedIn(loc)
    IN  [steps |-> <<"ensureLoggedIn">>, status |-> a.status]

Guards(loc) ==
    LET a == EnsureLoggedIn(loc)
        b == IsAdmin(loc)
    IN  IF a.status # "returned"
        THEN [steps |-> <<"ensureLoggedIn">>, status |-> a.status]
        ELSE [steps |-> <<"ensureLoggedIn", "isAdmin">>, status |-> b.status]

\* A route without guards.
NoGuards == [steps |-> <<>>, status |-> "returned"]

\* A handler up to its first await: whether it reached one, its steps so far,
\* the query of that await with its rows, or the error it stopped with.
Began(awaits, did, first, status) ==
    [awaits |-> awaits, steps |-> did, sent |-> first.sent, rows |-> first.rows,
     status |-> status]

\* POST /companies up to the first await of Company.create.
CompaniesPost(body) ==
    IF ~Valid(body, "companyNew")
    THEN Began(FALSE, <<"validate">>, Awaiting(<<>>, <<>>), "BadRequestError")
    ELSE Began(TRUE, <<"validate", "Company.create">>, CompanyCreateFirst(body), "")

\* The Number() conversions GET /companies makes on req.query.
CompaniesCoerce(query) ==
    LET q1 == IF In("minEmployees", query)
              THEN Set(query, "minEmployees", ToNumber(Get(query, "minEmployees")))
              ELSE query
        q2 == IF In("maxEmployees", q1)
              THEN Set(q1, "maxEmployees", ToNumber(Get(q1, "maxEmployees")))
              ELSE q1
    IN  q2

\* One step for each conversion made.
CompaniesCoerceSteps(query) ==
    (IF In("minEmployees", query) THEN <<"Number">> ELSE <<>>)
        \o (IF In("maxEmployees", query) THEN <<"Number">> ELSE <<>>)

\* Mutant: the comparison of the two bounds is made on the raw query, before
\* the conversions and the validation.
CompaniesGet_CheckFirst(query) ==
    LET queries == CompaniesCoerce(query)
    IN  IF RangeRejected(query)
        THEN Handled(<<"min > max">>, Stopped("BadRequestError"))
        ELSE IF ~Valid(queries, "getCompanies")
        THEN Handled(<<"min > max">> \o CompaniesCoerceSteps(query) \o <<"validate">>,
                     Stopped("BadRequestError"))
        ELSE Handled(<<"min > max">> \o CompaniesCoerceSteps(query)
                         \o <<"validate", "Company.findAll">>,
                     OfCompany(CompanyFindAll(queries)))

\* GET /companies: the conversions, the validation, then Company.findAll,
\* whose first statement compares the two bounds.
CompaniesGet(query) ==
    LET queries == CompaniesCoerce(query)
    IN  IF ~Valid(queries, "getCompanies")
        THEN Handled(CompaniesCoerceSteps(query) \o <<"validate">>,
                     Stopped("BadRequestError"))
        ELSE Handled(CompaniesCoerceSteps(query)
                         \o <<"validate", "Company.findAll", "min > max">>,
                     OfCompany(CompanyFindAll(queries)))

\* GET /companies/:handle
CompaniesGetOne(handle) ==
    {Began(TRUE, <<"Company.get">>, first, "") : first \in CompanyGetFirst(handle)}

\* PATCH /companies/:handle
CompaniesPatch(handle, body) ==
    IF ~Valid(body, "companyUpdate")
    THEN Handled(<<"validate">>, Stopped("BadRequestError"))
    ELSE Handled(<<"validate", "Company.update">>, OfCompany(CompanyUpdate(handle, body)))

\* DELETE /companies/:handle
CompaniesDelete(handle, fk) == Handled(<<"Company.remove">>, CompanyRemove(handle, fk))

\* POST /jobs up to the first await of Job.create.
JobsPost(body) ==
    IF ~Valid(body, "jobNew")
    THEN Began(FALSE, <<"validate">>, Awaiting(<<>>, <<>>), "BadRequestError")
    ELSE Began(TRUE, <<"validate", "Job.create">>, JobCreateFirst(body), "")

\* The two ways the versions of GET /jobs turn hasEquity into a boolean.
HasEquityConversions == {"=== \"true\"", "Boolean"}

JobsCoerce(query, conversion) ==
    LET q1 == IF In("minSalary", query)
              THEN Set(query, "minSalary", ToNumber(Get(query, "minSalary")))
              ELSE query
        q2 == IF In("hasEquity", q1)
              THEN Set(q1, "hasEquity",
                       IF conversion = "Boolean"
                       THEN Bool(ToBoolean(Get(q1, "hasEquity")))
                       ELSE Bool(StrictEquals(Get(q1, "hasEquity"), Str("true"))))
              ELSE q1
    IN  q2

JobsCoerceSteps(query) ==
    (IF In("minSalary", query) THEN <<"Number">> ELSE <<>>)
        \o (IF In("hasEquity", query) THEN <<"Boolean">> ELSE <<>>)

\* GET /jobs
JobsGet(query, conversion) ==
    LET queries == JobsCoerce(query, conversion)
    IN  IF ~Valid(queries, "getJobs")
        THEN Handled(JobsCoerceSteps(query) \o <<"validate">>, Stopped("BadRequestError"))
        ELSE Handled(JobsCoerceSteps(query) \o <<"validate", "Job.findAll">>,
                     OfJob(JobFindAll(queries)))

\* GET /jobs/:id
JobsGetOne(id) == Handled(<<"Job.get">>, JobGet(id))

\* PATCH /jobs/:id
JobsPatch(id, body) ==
    IF ~Valid(body, "jobUpdate")
    THEN Handled(<<"validate">>, Stopped("BadRequestError"))
    ELSE Handled(<<"validate", "Job.update">>, OfJob(JobUpdate(id, body)))

\* DELETE /jobs/:id
JobsDelete(id) == Handled(<<"Job.remove">>, JobRemove(id))

(* --------------------------------------------------------------- inputs *)

\* The objects with at most m own properties drawn from props, no key twice,
\* in every insertion order.
Objects(props, m) ==
    {o \in UNION {[1..n -> props] : n \in 0..m} :
        \A i, j \in 1..Len(o) : i # j => o[i].k # o[j].k}

\* Update maps handed to sqlForPartialUpdate directly, as its unit test does.
SqlData ==
    Objects({Prop("firstName", Str("Aliya")), Prop("firstName", Num(32)),
             Prop("age", Str("Aliya")), Prop("age", Num(32)),
             Prop("constructor", Num(32))}, MaxKeys)

SqlJsToSql ==
    {<<>>,
     <<Prop("firstName", Str("first_name"))>>,
     <<Prop("firstName", Str("first_name")), Prop("age", Str(""))>>,
     <<Prop("age", Str("years")), Prop("firstName", Str("first_name"))>>}

\* Company.update: "Data can include: {name, description, numEmployees, logoUrl}".
CompanyData ==
    Objects({Prop("name", Str("New")), Prop("numEmployees", Num(10)),
             Prop("logoUrl", Str("new.png"))}, MaxKeys)

\* Job.update: "Data can include: { title, salary, equity }"; companyHandle is
\* the one key its jsToSql map names.
JobData ==
    Objects({Prop("title", Str("dev")), Prop("salary", Num(50)),
             Prop("companyHandle", Str("c1"))}, MaxKeys)

CompanyHandles == {Str("c1"), Str("nope")}

JobIds == {Num(1), Num(2)}

\* req.query of GET /companies, before and after the route's Number().
CompanyQueries ==
    Objects({Prop("name", Str("net"))}
            \cup {Prop("minEmployees", v) : v \in {Num(1), Num(3), Str("x")}}
            \cup {Prop("maxEmployees", v) : v \in {Num(2), Str("2"), Str("x")}}
            \cup {Prop("page", Num(1))}, MaxCriteria)

\* req.query of GET /jobs.
JobQueries ==
    Objects({Prop("title", Str("dev"))}
            \cup {Prop("minSalary", v) : v \in {Num(50), Str("x")}}
            \cup {Prop("hasEquity", v) : v \in {Bool(TRUE), Bool(FALSE), Str("true")}}
            \cup {Prop("page", Num(1))}, MaxCriteria)

\* Company.create: { handle, name, description, numEmployees, logoUrl }.
NewCompanies ==
    {<<Prop("handle", h), Prop("name", Str("New")), Prop("description", Str("New Description")),
       Prop("numEmployees", n), Prop("logoUrl", Str("http://new.img"))>> :
        h \in {Str("c1"), Str("c2")}, n \in {Num(1), Num(10)}}

\* Job.create: { title, salary, equity, companyHandle }.
NewJobs ==
    {<<Prop("title", Str("new")), Prop("salary", Num(50)), Prop("equity", e),
       Prop("companyHandle", h)>> :
        e \in {Str("0.1"), Str("0")}, h \in {Str("c1"), Str("c2"), Str("nope")}}

\* Authorization headers: a scheme or none, a token or other text, and
\* sometimes a trailing blank.
AuthorizationHeaders ==
    {<<>>} \cup
    {scheme \o <<t>> \o pad :
        scheme \in {<<>>, <<"Bearer ">>, <<"bearer ">>, <<"BEARER ">>},
        t \in {"testJwt", "adminJwt", "badJwt", "garbage"},
        pad \in {<<>>, <<" ">>}}

\* req.params of the user routes.
UserParams ==
    {<<>>, <<Prop("username", Str("test"))>>, <<Prop("username", Str("other"))>>}

Requests ==
    {Request(FALSE, FALSE, <<>>, <<>>), Request(TRUE, FALSE, <<>>, <<>>)}
    \cup {Request(TRUE, TRUE, a, <<>>) : a \in AuthorizationHeaders}

\* What res.locals.user may hold when a guard runs.
Users ==
    {<<>>,
     <<Prop("username", Str("test"))>>,
     <<Prop("isAdmin", Bool(TRUE))>>,
     <<Prop("username", Str("test")), Prop("isAdmin", Bool(FALSE))>>,
     <<Prop("username", Str("test")), Prop("isAdmin", Str("true"))>>,
     <<Prop("username", Str("admin")), Prop("isAdmin", Bool(TRUE))>>}

LocalsBefore == {NoLocals} \cup {Locals(TRUE, u) : u \in Users}

\* req.body of POST /companies.
CompanyBodies ==
    {<<>>} \cup
    {<<Prop("handle", h), Prop("name", Str("New")), Prop("description", Str("New Description")),
       Prop("numEmployees", Num(10)), Prop("logoUrl", Str("http://new.img"))>> :
        h \in {Str("c1"), Str("c2")}}

\* req.body of PATCH /companies/:handle.
CompanyPatches == {<<Prop("name", Str("New"))>>, <<Prop("handle", Str("c9"))>>}

\* req.query of GET /companies as the query string gives it: text only.
RawCompanyQueries ==
    {<<>>,
     <<Prop("minEmployees", Str("1"))>>,
     <<Prop("minEmployees", Str("1")), Prop("maxEmployees", Str("2"))>>,
     <<Prop("minEmployees", Str("3")), Prop("maxEmployees", Str("2"))>>,
     <<Prop("minEmployees", Str("x")), Prop("maxEmployees", Str("2"))>>,
     <<Prop("name", Str("net")), Prop("maxEmployees", Str("2")), Prop("page", Str("1"))>>}

\* req.body of POST /jobs.
JobBodies ==
    {<<>>} \cup
    {<<Prop("title", Str("new")), Prop("salary", Num(50)), Prop("equity", Str("0.1")),
       Prop("companyHandle", h)>> : h \in {Str("c1"), Str("nope")}}

\* req.body of PATCH /jobs/:id.
JobPatches == {<<Prop("title", Str("dev"))>>, <<Prop("id", Num(9))>>}

\* req.query of GET /jobs as the query string gives it.
RawJobQueries ==
    {<<>>,
     <<Prop("minSalary", Str("x"))>>,
     <<Prop("hasEquity", Str("true"))>>,
     <<Prop("hasEquity", Str("false")), Prop("minSalary", Str("50"))>>}

\* What res.locals holds when a request reaches a route.
RouteLocals ==
    {NoLocals,
     Locals(TRUE, <<Prop("isAdmin", Bool(TRUE))>>),
     Locals(TRUE, <<Prop("username", Str("test")), Prop("isAdmin", Bool(FALSE))>>),
     Locals(TRUE, <<Prop("username", Str("admin")), Prop("isAdmin", Bool(TRUE))>>)}

(* ---------------------------------------------------------- state machine *)

Call(op, key, data, jsToSql) ==
    [op |-> op, key |-> key, data |-> data, jsToSql |-> jsToSql]

NoCall == Call("", Undefined, <<>>, <<>>)

NoFragment == [clause |-> <<>>, values |-> <<>>]

\* No request is being handled.
NoReq == Request(FALSE, FALSE, <<>>, <<>>)

\* The callers (requests) that may be inside a method with two awaits at the
\* same time.
Procs == {"a", "b"}

\* A caller's position: the method or route and its argument, where it stands
\* ("idle", "awaiting" the answer to its first query, "done"), the rows that
\* first query returned, how it ended, the queries it sent, and, for a
\* route, its steps so far and res.locals.
Proc(op, data, pc, rows, status, queries, did, loc) ==
    [op |-> op, data |-> data, pc |-> pc, rows |-> rows, status |-> status,
     sent |-> queries, steps |-> did, locals |-> loc]

IdleProc == Proc("", <<>>, "idle", <<>>, "", <<>>, <<>>, NoLocals)

Init ==
    /\ companies = [h \in {Str("c1")} |->
                      [c \in CompanyColumns |->
                         CASE c = "name"          -> Str("C1")
                           [] c = "description"   -> Str("Desc1")
                           [] c = "num_employees" -> Num(1)
                           [] OTHER               -> Str("c1.png")]]
    /\ jobs = [i \in {Num(1)} |->
                 [c \in JobColumns |->
                    CASE c = "title"  -> Str("j1")
                      [] c = "salary" -> Num(100)
                      [] c = "equity" -> Str("0")
                      [] OTHER        -> Str("c1")]]
    /\ call = NoCall
    /\ built = NoFragment
    /\ sent = <<>>
    /\ outcome = ""
    /\ jobSeq = 1
    /\ req = NoReq
    /\ before = NoLocals
    /\ locals = NoLocals
    /\ steps = <<>>
    /\ procs = [p \in Procs |-> IdleProc]
    /\ requests = 0

\* sqlForPartialUpdate(dataToUpdate, jsToSql) called on its own, as its unit
\* test calls it.
SqlForPartialUpdateCall ==
    \E d \in SqlData, m \in SqlJsToSql :
        LET b == sqlForPartialUpdate(d, m)
        IN  /\ call = NoCall
            /\ call' = Call("sqlForPartialUpdate", Undefined, d, m)
            /\ built' = [clause |-> b.setCols, values |-> b.values]
            /\ sent' = <<>>
            /\ outcome' = (IF b.error # "" THEN b.error ELSE "returned")
            /\ UNCHANGED <<companies, jobs, others>>

CompanyFindAllCall ==
    \E q \in CompanyQueries :
        LET r == CompanyFindAll(q)
        IN  /\ call = NoCall
            /\ call' = Call("Company.findAll", Undefined, q, <<>>)
            /\ built' = [clause |-> r.clause, values |-> r.values]
            /\ sent' = r.sent
            /\ outcome' = r.status
            /\ UNCHANGED <<companies, jobs, others>>

CompanyUpdateCall ==
    \E h \in CompanyHandles, d \in CompanyData :
        LET r == CompanyUpdate(h, d)
        IN  /\ call = NoCall
            /\ call' = Call("Company.update", h, d, CompanyJsToSql)
            /\ built' = [clause |-> r.clause, values |-> r.values]
            /\ sent' = r.sent
            /\ outcome' = r.status
            /\ companies' = r.table
            /\ UNCHANGED <<jobs, others>>

JobFindAllCall ==
    \E q \in JobQueries :
        LET r == JobFindAll(q)
        IN  /\ call = NoCall
            /\ call' = Call("Job.findAll", Undefined, q, <<>>)
            /\ built' = [clause |-> r.clause, values |-> r.values]
            /\ sent' = r.sent
            /\ outcome' = r.status
            /\ UNCHANGED <<companies, jobs, others>>

JobUpdateCall ==
    \E i \in JobIds, d \in JobData :
        LET r == JobUpdate(i, d)
        IN  /\ call = NoCall
            /\ call' = Call("Job.update", i, d, JobJsToSql)
            /\ built' = [clause |-> r.clause, values |-> r.values]
            /\ sent' = r.sent
            /\ outcome' = r.status
            /\ jobs' = r.table
            /\ UNCHANGED <<companies, others>>

\* The caller takes the result (or the error); the call's locals are gone.
\* A middleware called on its own with a request and res.locals, as
\* auth.test.js calls it.
Middleware(op, r, loc, m) ==
    /\ call = NoCall
    /\ call' = Call(op, Undefined, <<>>, <<>>)
    /\ req' = r
    /\ before' = loc
    /\ locals' = m.locals
    /\ steps' = m.steps
    /\ outcome' = m.status
    /\ UNCHANGED <<companies, jobs, built, sent, jobSeq, procs, requests>>

AuthenticateJWTCall ==
    \E r \in Requests, loc \in {NoLocals, Locals(TRUE, <<Prop("username", Str("old"))>>)} :
        Middleware("authenticateJWT", r, loc, AuthenticateJWT(r, loc))

EnsureLoggedInCall ==
    \E loc \in LocalsBefore :
        Middleware("ensureLoggedIn", NoReq, loc, EnsureLoggedIn(loc))

IsAdminCall ==
    \E loc \in LocalsBefore : Middleware("isAdmin", NoReq, loc, IsAdmin(loc))

IsAdminOrCurrentUserCall ==
    \E ps \in UserParams, loc \in LocalsBefore :
        LET r == Request(TRUE, FALSE, <<>>, ps)
        IN  Middleware("isAdminOrCurrentUser", r, loc, IsAdminOrCurrentUser(r, loc))

\* A request to a route: the guards it lists, then, if they called next, its
\* handler.
Route(op, key, data, loc, g, h) ==
    LET passed == g.status = "returned"
    IN  /\ call = NoCall
        /\ requests < MaxRequests
        /\ requests' = requests + 1
        /\ call' = Call(op, key, data, <<>>)
        /\ req' = NoReq
        /\ before' = loc
        /\ locals' = loc
        /\ steps' = IF passed THEN g.steps \o h.steps ELSE g.steps
        /\ outcome' = IF passed THEN h.status ELSE g.status
        /\ sent' = IF passed THEN h.sent ELSE <<>>
        /\ companies' = IF passed THEN h.companies ELSE companies
        /\ jobs' = IF passed THEN h.jobs ELSE jobs
        /\ UNCHANGED <<built, jobSeq, procs>>

\* A request to a route whose handler awaits a method with two awaits. When
\* a guard or the handler stops it before the first await it is over in one
\* step; otherwise it is left awaiting the answer to the first query.
RouteBegin(op, data, loc, g, b) ==
    IF g.status = "returned" /\ b.awaits
    THEN /\ call = NoCall
         /\ requests < MaxRequests
         /\ requests' = requests + 1
         /\ \E p \in Procs :
               /\ procs[p].pc = "idle"
               /\ procs' = [procs EXCEPT ![p] =
                              Proc(op, data, "awaiting", b.rows, "", b.sent,
                                   g.steps \o b.steps, loc)]
         /\ op = "POST /jobs" =>
               jobSeq + Cardinality({o \in Procs : procs[o].pc = "awaiting"
                                        /\ procs[o].op \in {"Job.create", "POST /jobs"}})
                  < MaxJobId
         /\ UNCHANGED <<companies, jobs, call, built, sent, outcome, jobSeq,
                        req, before, locals, steps>>
    ELSE Route(op, Undefined, data, loc, g,
               Handled(b.steps, Stopped(b.status)))

CompaniesPostRoute ==
    \E loc \in RouteLocals, body \in CompanyBodies :
        RouteBegin("POST /companies", body, loc, Guards(loc), CompaniesPost(body))

CompaniesGetRoute ==
    \E loc \in {NoLocals}, query \in RawCompanyQueries :
        Route("GET /companies", Undefined, query, loc, NoGuards, CompaniesGet(query))

CompaniesGetOneRoute ==
    \E loc \in {NoLocals}, handle \in CompanyHandles :
        \E began \in CompaniesGetOne(handle) :
            RouteBegin("GET /companies/:handle", <<Prop("handle", handle)>>, loc,
                       NoGuards, began)

CompaniesPatchRoute ==
    \E loc \in RouteLocals, handle \in CompanyHandles, body \in CompanyPatches :
        Route("PATCH /companies/:handle", handle, body, loc, Guards(loc),
              CompaniesPatch(handle, body))

CompaniesDeleteRoute ==
    \E loc \in RouteLocals, handle \in CompanyHandles, fk \in ForeignKeyModes :
        Route("DELETE /companies/:handle", handle, <<>>, loc, Guards(loc),
              CompaniesDelete(handle, fk))

JobsPostRoute ==
    \E loc \in RouteLocals, body \in JobBodies :
        RouteBegin("POST /jobs", body, loc, Guards(loc), JobsPost(body))

JobsGetRoute ==
    \E loc \in {NoLocals}, query \in RawJobQueries, conversion \in HasEquityConversions :
        Route("GET /jobs", Undefined, query, loc, NoGuards, JobsGet(query, conversion))

JobsGetOneRoute ==
    \E loc \in {NoLocals}, id \in JobIds :
        Route("GET /jobs/:id", id, <<>>, loc, NoGuards, JobsGetOne(id))

JobsPatchRoute ==
    \E loc \in RouteLocals, id \in JobIds, body \in JobPatches :
        Route("PATCH /jobs/:id", id, body, loc, Guards(loc), JobsPatch(id, body))

JobsDeleteRoute ==
    \E loc \in RouteLocals, id \in JobIds :
        Route("DELETE /jobs/:id", id, <<>>, loc, Guards(loc), JobsDelete(id))

\* A model method with two awaits called directly: it is left awaiting the
\* answer to its first query.
Start(p, op, data, a) ==
    /\ procs[p].pc = "idle"
    /\ procs' = [procs EXCEPT ![p] =
                   Proc(op, data, "awaiting", a.rows, "", a.sent, <<>>, NoLocals)]
    /\ UNCHANGED <<companies, jobs, call, built, sent, outcome, jobSeq, req,
                   before, locals, steps, requests>>

CompanyCreateStart(p) ==
    \E d \in NewCompanies :
        Start(p, "Company.create", d, CompanyCreateFirst(d))

CompanyGetStart(p) ==
    \E h \in CompanyHandles :
        \E first \in CompanyGetFirst(h) :
            Start(p, "Company.get", <<Prop("handle", h)>>, first)

JobCreateStart(p) ==
    \E d \in {j \in NewJobs : Get(j, "equity") = Str("0")} :
        /\ jobSeq + Cardinality({o \in Procs : procs[o].pc = "awaiting"
                                    /\ procs[o].op \in {"Job.create", "POST /jobs"}})
              < MaxJobId
        /\ Start(p, "Job.create", d, JobCreateFirst(d))

\* The rest of a method after its first await, run when the answer has come:
\* other callers may have run in between.
Resume(p, d) ==
    LET me == procs[p]
    IN  /\ me.pc = "awaiting"
        /\ procs' = [procs EXCEPT ![p] =
                       Proc(me.op, me.data, "done", me.rows, d.status, d.sent,
                            me.steps, me.locals)]
        /\ companies' = d.companies
        /\ jobs' = d.jobs
        /\ jobSeq' = jobSeq + Cardinality(JobInserts(d.sent))
        /\ UNCHANGED <<call, built, sent, outcome, req, before, locals, steps,
                       requests>>

CompanyCreateResume(p) ==
    /\ procs[p].op \in {"Company.create", "POST /companies"}
    /\ Resume(p, CompanyCreateRest(procs[p].data, procs[p].rows, procs[p].sent))

CompanyGetResume(p) ==
    /\ procs[p].op \in {"Company.get", "GET /companies/:handle"}
    /\ Resume(p, CompanyGetRest(Get(procs[p].data, "handle"), procs[p].rows,
                                procs[p].sent))

JobCreateResume(p) ==
    /\ procs[p].op \in {"Job.create", "POST /jobs"}
    /\ Resume(p, JobCreateRest(procs[p].data, procs[p].rows, procs[p].sent))

\* Company.remove: its one query.
CompanyRemoveStep(p) ==
    \E h \in {Str("c1"), Str("c2")}, fk \in ForeignKeyModes :
        LET r == CompanyRemove(h, fk)
        IN  /\ procs[p].pc = "idle"
            /\ procs' = [procs EXCEPT ![p] =
                           Proc("Company.remove", <<Prop("handle", h)>>, "done",
                                <<>>, r.status, r.sent, <<>>, NoLocals)]
            /\ companies' = r.companies
            /\ jobs' = r.jobs
            /\ UNCHANGED <<call, built, sent, outcome, jobSeq, req, before,
                           locals, steps, requests>>

\* A call that has ended is over: its caller may call again, whatever the
\* other callers are doing.
Settle(p) ==
    /\ procs[p].pc = "done"
    /\ procs' = [procs EXCEPT ![p] = IdleProc]
    /\ UNCHANGED <<companies, jobs, call, built, sent, outcome, jobSeq, req,
                   before, locals, steps, requests>>

Respond ==
    /\ call # NoCall
    /\ call' = NoCall
    /\ built' = NoFragment
    /\ sent' = <<>>
    /\ outcome' = ""
    /\ req' = NoReq
    /\ before' = NoLocals
    /\ locals' = NoLocals
    /\ steps' = <<>>
    /\ UNCHANGED <<companies, jobs, jobSeq, procs, requests>>

Next ==
    \/ SqlForPartialUpdateCall
    \/ CompanyFindAllCall
    \/ CompanyUpdateCall
    \/ JobFindAllCall
    \/ JobUpdateCall
    \/ Respond

Spec == Init /\ [][Next]_vars

\* The middleware called on its own, as its tests call it.
NextAuth ==
    \/ AuthenticateJWTCall
    \/ EnsureLoggedInCall
    \/ IsAdminCall
    \/ IsAdminOrCurrentUserCall
    \/ Respond

SpecAuth == Init /\ [][NextAuth]_vars

\* Requests to the routes of companies and jobs; those inside Company.create,
\* Job.create or Company.get wait for the database while others run.
NextRoutes ==
    \/ CompaniesPostRoute
    \/ CompaniesGetRoute
    \/ CompaniesGetOneRoute
    \/ CompaniesPatchRoute
    \/ CompaniesDeleteRoute
    \/ JobsPostRoute
    \/ JobsGetRoute
    \/ JobsGetOneRoute
    \/ JobsPatchRoute
    \/ JobsDeleteRoute
    \/ \E p \in Procs : CompanyCreateResume(p)
    \/ \E p \in Procs : CompanyGetResume(p)
    \/ \E p \in Procs : JobCreateResume(p)
    \/ \E p \in Procs : Settle(p)
    \/ Respond

SpecRoutes == Init /\ [][NextRoutes]_vars

\* Callers inside Company.create, Job.create and Company.remove at the same
\* time, each taking a step at a time.
NextConc ==
    \/ \E p \in Procs : CompanyCreateStart(p)
    \/ \E p \in Procs : CompanyCreateResume(p)
    \/ \E p \in Procs : CompanyGetStart(p)
    \/ \E p \in Procs : CompanyGetResume(p)
    \/ \E p \in Procs : JobCreateStart(p)
    \/ \E p \in Procs : JobCreateResume(p)
    \/ \E p \in Procs : CompanyRemoveStep(p)
    \/ \E p \in Procs : Settle(p)

SpecConc == Init /\ [][NextConc]_vars

(* ---------------------------------------------------------------- claims *)

UpdateOps == {"sqlForPartialUpdate", "Company.update", "Job.update"}

FindOps == {"Company.findAll", "Job.findAll"}

\* C1: for a non-empty update map of size n, the SET clause is exactly n
\* assignments joined by ", ", the i-th being a quoted column, "=", and $i, and
\* values has length n with the i-th entry the value of the i-th key; the
\* map {firstName: "Aliya", age: 32} with {firstName: "first_name"} gives
\* '"first_name"=$1, "age"=$2' and ["Aliya", 32].
C1_SetClauseShape ==
    (call.op \in UpdateOps /\ Len(call.data) > 0) =>
        LET n == Len(call.data)
        IN  /\ outcome # "BadRequestError"
            /\ Len(built.clause) = 4 * n - 1
            /\ \A i \in 1..n :
                  /\ built.clause[4 * i - 3].kind = "ident"
                  /\ built.clause[4 * i - 2] = Lit("=")
                  /\ built.clause[4 * i - 1] = Ph(i)
                  /\ i < n => built.clause[4 * i] = Lit(", ")
            /\ Len(built.values) = n
            /\ \A i \in 1..n : built.values[i] = call.data[i].v
            /\ (/\ call.data = <<Prop("firstName", Str("Aliya")), Prop("age", Num(32))>>
                /\ call.jsToSql = <<Prop("firstName", Str("first_name"))>>)
               => /\ Render(built.clause) = "\"first_name\"=$1, \"age\"=$2"
                  /\ built.values = <<Str("Aliya"), Num(32)>>

C1_Witness ==
    /\ call.op = "sqlForPartialUpdate"
    /\ Len(call.data) = MaxKeys
    /\ call.data[1].k = "age"
    /\ call.data[1].v # call.data[2].v
    /\ outcome = "returned"
    /\ Len(built.values) = MaxKeys

\* C2: with an empty update map, whatever the column-name map, the builder
\* throws BadRequestError and yields no clause and no values, and
\* Company.update and Job.update hand no query to the database.
C2_EmptyUpdateRejected ==
    (call.op \in UpdateOps /\ call.data = <<>>) =>
        /\ outcome = "BadRequestError"
        /\ built = NoFragment
        /\ sent = <<>>

C2_Witness ==
    /\ call.op = "Company.update"
    /\ call.data = <<>>
    /\ outcome = "BadRequestError"

\* The column name the i-th assignment of a SET clause carries.
EmittedColumn(clause, i) == clause[4 * i - 3].s

\* C3: each key of the update map that the column-name map holds is emitted
\* under its mapped name, and every other key under its own name.
C3_ColumnNameResolution ==
    (call.op \in UpdateOps /\ Len(call.data) > 0) =>
        \A i \in 1..Len(call.data) :
            EmittedColumn(built.clause, i) =
                IF HasOwn(call.jsToSql, call.data[i].k)
                THEN Get(call.jsToSql, call.data[i].k).s
                ELSE call.data[i].k

\* The filter keys of each entity, in the order the spec declares them.
RuleOrder(op) ==
    IF op = "Company.findAll" THEN <<"name", "minEmployees", "maxEmployees">>
    ELSE <<"title", "minSalary", "hasEquity">>

\* The filter key whose predicate starts with this segment ("" for any other).
LeadKey(op, g) ==
    CASE g = Lit("name ILIKE '%' || ") /\ op = "Company.findAll" -> "name"
      [] g = Lit("num_employees >= ")  /\ op = "Company.findAll" -> "minEmployees"
      [] g = Lit("num_employees <= ")  /\ op = "Company.findAll" -> "maxEmployees"
      [] g = Lit("title ILIKE '%' || ") /\ op = "Job.findAll"    -> "title"
      [] g = Lit("salary >= ")          /\ op = "Job.findAll"    -> "minSalary"
      [] g = Lit("equity > ")           /\ op = "Job.findAll"    -> "hasEquity"
      [] OTHER -> ""

\* The filter keys of the predicates of a WHERE clause, left to right.
EmittedKeys(op, clause) ==
    LET F[i \in 0..Len(clause)] ==
          IF i = 0 THEN <<>>
          ELSE IF LeadKey(op, clause[i]) # "" THEN Append(F[i - 1], LeadKey(op, clause[i]))
          ELSE F[i - 1]
    IN  F[Len(clause)]

IndexOf(seq, x) == CHOOSE i \in 1..Len(seq) : seq[i] = x

Occurs(seq, x) == \E i \in 1..Len(seq) : seq[i] = x

\* C4: a listing emits predicates only for keys the criteria hold, joined by
\* " AND ", in the declared order of the entity's rules whatever the order of
\* the criteria's keys; {maxEmployees: 2, minEmployees: 1} gives the min
\* predicate, then the max predicate, with values [1, 2].
C4_DeclaredOrder ==
    (call.op \in FindOps /\ outcome = "returned") =>
        LET ks == EmittedKeys(call.op, built.clause)
            order == RuleOrder(call.op)
        IN  /\ \A i \in 1..Len(ks) : HasOwn(call.data, ks[i])
            /\ \A i, j \in 1..Len(ks) :
                  i < j => IndexOf(order, ks[i]) < IndexOf(order, ks[j])
            /\ Len(ks) > 0 => built.clause[1] = Lit("WHERE ")
            /\ Cardinality({i \in 1..Len(built.clause) : built.clause[i] = Lit(" AND ")})
                  = (IF Len(ks) = 0 THEN 0 ELSE Len(ks) - 1)
            /\ \A i \in 1..Len(built.clause) :
                  built.clause[i] \in {Lit(" AND "), Lit("WHERE ")}
                      => i < Len(built.clause) /\ LeadKey(call.op, built.clause[i + 1]) # ""
            /\ (/\ call.op = "Company.findAll"
                /\ call.data = <<Prop("maxEmployees", Num(2)), Prop("minEmployees", Num(1))>>)
               => /\ Render(built.clause)
                        = "WHERE num_employees >= $1 AND num_employees <= $2"
                  /\ built.values = <<Num(1), Num(2)>>

C4_Witness ==
    /\ call.op = "Company.findAll"
    /\ Len(call.data) = 3
    /\ call.data[1].k = "maxEmployees"
    /\ call.data[2].k = "minEmployees"
    /\ call.data[3].k = "name"
    /\ outcome = "returned"
    /\ EmittedKeys(call.op, built.clause) = <<"name", "minEmployees", "maxEmployees">>

\* C5: the fragment either builder produces uses exactly the placeholders
\* $1..$len(values), each once and in increasing order left to right, and the
\* database receives values[i] as the parameter of $i.
C5_PlaceholderNumbering ==
    (call.op \in UpdateOps \cup FindOps /\ outcome \notin {"", "BadRequestError"}) =>
        /\ Placeholders(built.clause) = [i \in 1..Len(built.values) |-> i]
        /\ \A k \in 1..Len(sent) :
              /\ Len(sent[k].params) >= Len(built.values)
              /\ \A i \in 1..Len(built.values) : sent[k].params[i] = built.values[i]
              /\ call.op \in FindOps => Placeholders(sent[k].sql) = Placeholders(built.clause)

C5_Witness ==
    /\ call.op \in FindOps
    /\ outcome = "returned"
    /\ Len(built.values) = 3
    /\ Len(sent) = 1

RecognizedKeys(op) == {RuleOrder(op)[i] : i \in 1..Len(RuleOrder(op))}

\* C6: when the criteria hold none of the entity's filter keys, the clause and
\* the values are empty and the query sent has no WHERE keyword.
C6_NoFilterNoWhere ==
    (/\ call.op \in FindOps
     /\ \A k \in RecognizedKeys(call.op) : ~HasOwn(call.data, k)) =>
        /\ outcome = "returned"
        /\ built = NoFragment
        /\ Len(sent) = 1
        /\ sent[1].params = <<>>
        /\ \A i \in 1..Len(sent[1].sql) : sent[1].sql[i] # Lit("WHERE ")
        /\ Len(sent[1].sql) = 2

C6_Witness ==
    /\ call.op \in FindOps
    /\ call.data = <<Prop("page", Num(1))>>
    /\ outcome = "returned"
    /\ Len(sent) = 1

\* C7: jobs criteria {hasEquity: true} give exactly one predicate, equity > $1,
\* and values [0].
C7_EquityBindsZero ==
    (call.op = "Job.findAll" /\ call.data = <<Prop("hasEquity", Bool(TRUE))>>) =>
        /\ built.clause = <<Lit("WHERE "), Lit("equity > "), Ph(1)>>
        /\ Render(built.clause) = "WHERE equity > $1"
        /\ built.values = <<Num(0)>>
        /\ outcome = "returned"

C7_Witness ==
    /\ call.op = "Job.findAll"
    /\ call.data = <<Prop("hasEquity", Bool(TRUE))>>
    /\ Len(sent) = 1

\* What a listing that reached its builder does for every rule but equity: a
\* key the criteria hold gets its predicate, bound to the criteria's value.
PlainRulesEmitted ==
    LET ks == EmittedKeys(call.op, built.clause)
    IN  /\ Len(built.values) = Len(ks)
        /\ \A k \in RecognizedKeys(call.op) \ {"hasEquity"} :
              HasOwn(call.data, k) =>
                  /\ Occurs(ks, k)
                  /\ built.values[IndexOf(ks, k)] = Get(call.data, k)
        /\ Occurs(ks, "hasEquity") => built.values[IndexOf(ks, "hasEquity")] = Num(0)

\* C8 as stated: every rule whose key the criteria hold emits its predicate and
\* one value, the equity rule whatever value hasEquity carries.
C8_Original ==
    (call.op \in FindOps /\ outcome = "returned") =>
        /\ PlainRulesEmitted
        /\ HasOwn(call.data, "hasEquity") /\ call.op = "Job.findAll"
              => Occurs(EmittedKeys(call.op, built.clause), "hasEquity")

\* C8, amended: in a listing that reached its builder, every rule but equity
\* whose key the criteria hold emits its predicate bound to the criteria's
\* value; the equity predicate, bound to the literal 0, is emitted exactly
\* when hasEquity is held and is the boolean true.
C8_EquityOnlyWhenTrue ==
    (call.op \in FindOps /\ outcome = "returned") =>
        /\ PlainRulesEmitted
        /\ Occurs(EmittedKeys(call.op, built.clause), "hasEquity")
              <=> /\ call.op = "Job.findAll"
                  /\ HasOwn(call.data, "hasEquity")
                  /\ Get(call.data, "hasEquity") = Bool(TRUE)

C8_Witness ==
    /\ call.op = "Job.findAll"
    /\ HasOwn(call.data, "hasEquity")
    /\ Get(call.data, "hasEquity") = Bool(FALSE)
    /\ HasOwn(call.data, "minSalary")
    /\ outcome = "returned"
    /\ Len(built.values) = 1

\* C9: for an update map of size n, Company.update and Job.update select the
\* row with placeholder $(n+1) and hand the database the builder's n values
\* followed by the key, so the text's placeholders are exactly $1..$(n+1).
C9_RowPlaceholderContinues ==
    (call.op \in {"Company.update", "Job.update"} /\ Len(call.data) > 0) =>
        LET n == Len(call.data)
            q == sent[1]
            whereLit == IF call.op = "Company.update"
                        THEN Lit(" WHERE handle = ") ELSE Lit(" WHERE id = ")
        IN  /\ Len(sent) = 1
            /\ Occurs(q.sql, whereLit)
            /\ q.sql[IndexOf(q.sql, whereLit) + 1] = Ph(n + 1)
            /\ Placeholders(q.sql) = [i \in 1..(n + 1) |-> i]
            /\ q.params = built.values \o <<call.key>>
            /\ Len(q.params) = n + 1
            /\ outcome \in {"returned", "NotFoundError"}

C9_Witness ==
    /\ call.op = "Company.update"
    /\ Len(call.data) = 2
    /\ Len(sent) = 1
    /\ outcome = "returned"

\* The number a criteria value stands for, when it is a number or a numeral.
IsNumeric(v) == \E i \in Numerals : v = Num(i) \/ v = Str(ToString(i))

NumericOf(v) == CHOOSE i \in Numerals : v = Num(i) \/ v = Str(ToString(i))

\* C10: a company listing given both bounds with the minimum above the maximum
\* ends in BadRequestError with no predicate built and no query sent.
C10_RangeRejectedFirst ==
    (/\ call.op = "Company.findAll"
     /\ HasOwn(call.data, "minEmployees") /\ HasOwn(call.data, "maxEmployees")
     /\ IsNumeric(Get(call.data, "minEmployees"))
     /\ IsNumeric(Get(call.data, "maxEmployees"))
     /\ NumericOf(Get(call.data, "minEmployees"))
            > NumericOf(Get(call.data, "maxEmployees"))) =>
        /\ outcome = "BadRequestError"
        /\ built = NoFragment
        /\ sent = <<>>

C10_Witness ==
    /\ call.op = "Company.findAll"
    /\ HasOwn(call.data, "name")
    /\ Get(call.data, "minEmployees") = Num(3)
    /\ Get(call.data, "maxEmployees") = Str("2")
    /\ outcome = "BadRequestError"

\* C11: the filter construction of a listing never fails: whatever the
\* criteria, the empty one included, a listing that passed the company range
\* check builds a clause and values and returns; the only error a listing
\* raises is that range check's, on two numeric bounds with min above max.
C11_FilterNeverFails ==
    call.op \in FindOps =>
        /\ outcome \in {"returned", "BadRequestError"}
        /\ outcome = "BadRequestError" =>
              /\ call.op = "Company.findAll"
              /\ HasOwn(call.data, "minEmployees") /\ HasOwn(call.data, "maxEmployees")
              /\ IsNumeric(Get(call.data, "minEmployees"))
              /\ IsNumeric(Get(call.data, "maxEmployees"))
              /\ NumericOf(Get(call.data, "minEmployees"))
                     > NumericOf(Get(call.data, "maxEmployees"))
        /\ outcome = "returned" =>
              /\ Len(sent) = 1
              /\ sent[1].params = built.values
              /\ Len(built.values) = Len(EmittedKeys(call.op, built.clause))
              /\ (built.clause = <<>>) <=> (built.values = <<>>)

C11_Witness ==
    /\ call.op = "Company.findAll"
    /\ call.data = <<>>
    /\ outcome = "returned"
    /\ built = NoFragment

\* C12: Company.get(handle) throws NotFoundError whenever no company with that
\* handle exists in the companies table, whatever jobs rows exist.
C12_AbsentHandleNotFound ==
    [][\A p \in Procs :
          (/\ procs[p].op = "Company.get"
           /\ procs[p].pc = "awaiting"
           /\ procs'[p].pc = "done"
           /\ Get(procs[p].data, "handle") \notin DOMAIN companies) =>
              procs'[p].status = "NotFoundError"]_vars

\* C13: Company.create called with a handle that is already in the table
\* (its duplicate check, the first thing the call does, finds the row) throws
\* BadRequestError, issues no INSERT and leaves the table as it was; called
\* with a handle not in the table it issues exactly one INSERT and returns,
\* the table now holding the new company.
C13_CreateDuplicateOrInsert ==
    [][\A p \in Procs :
          /\ (/\ procs[p].pc = "idle"
              /\ procs'[p].op = "Company.create"
              /\ procs'[p].pc = "awaiting") =>
                 /\ procs'[p].sent
                       = <<DuplicateCheckQuery(Get(procs'[p].data, "handle"))>>
                 /\ (procs'[p].rows # <<>>)
                       <=> (Get(procs'[p].data, "handle") \in DOMAIN companies)
                 /\ companies' = companies
          /\ (/\ procs[p].op = "Company.create"
              /\ procs[p].pc = "awaiting"
              /\ procs'[p].pc = "done") =>
                 LET handle == Get(procs[p].data, "handle")
                 IN  IF procs[p].rows # <<>>
                     THEN /\ procs'[p].status = "BadRequestError"
                          /\ procs'[p].sent = <<DuplicateCheckQuery(handle)>>
                          /\ Inserts(procs'[p].sent) = {}
                          /\ companies' = companies
                     ELSE /\ Cardinality(Inserts(procs'[p].sent)) = 1
                          /\ procs'[p].sent[2] = InsertCompanyQuery(procs[p].data)
                          /\ procs'[p].status = "returned"
                          /\ DOMAIN companies' = DOMAIN companies \cup {handle}
                          /\ companies'[handle]["name"] = Get(procs[p].data, "name")
                          /\ companies'[handle]["num_employees"]
                                = Get(procs[p].data, "numEmployees")]_vars

\* C14: Job.create throws NotFoundError and issues no INSERT INTO jobs when
\* companyHandle matches no row of companies; a job row is inserted only for
\* a company handle that the preceding lookup found.
C14_JobCreateNeedsCompany ==
    [][\A p \in Procs :
          /\ (/\ procs[p].pc = "idle"
              /\ procs'[p].op = "Job.create"
              /\ procs'[p].pc = "awaiting") =>
                 /\ procs'[p].sent
                       = <<CompanyLookupQuery(Get(procs'[p].data, "companyHandle"))>>
                 /\ (procs'[p].rows = <<>>)
                       <=> (Get(procs'[p].data, "companyHandle") \notin DOMAIN companies)
          /\ (/\ procs[p].op = "Job.create"
              /\ procs[p].pc = "awaiting"
              /\ procs'[p].pc = "done") =>
                 LET handle == Get(procs[p].data, "companyHandle")
                 IN  /\ procs[p].rows = <<>> =>
                           /\ procs'[p].status = "NotFoundError"
                           /\ Inserts(procs'[p].sent) = {}
                           /\ jobs' = jobs
                     /\ Inserts(procs'[p].sent) # {} =>
                           /\ procs[p].rows = <<handle>>
                           /\ procs'[p].sent[1] = CompanyLookupQuery(handle)
                     /\ \A i \in DOMAIN jobs' \ DOMAIN jobs :
                           /\ jobs'[i]["company_handle"] = handle
                           /\ procs[p].rows = <<handle>>]_vars

C14_Witness ==
    \E p \in Procs :
        /\ procs[p].op = "Job.create"
        /\ procs[p].pc = "done"
        /\ procs[p].rows = <<>>
        /\ procs[p].status = "NotFoundError"
        /\ Inserts(procs[p].sent) = {}

\* Whether an authorization header carries a token signed with the secret
\* key, bare or after "Bearer " or "bearer ", blanks around it aside.
CarriesValidToken(r) ==
    /\ r.hasHeaders /\ r.hasAuthorization
    /\ \E t \in SignedTokens, scheme \in {<<>>, <<"Bearer ">>, <<"bearer ">>},
          pad \in {<<>>, <<" ">>} :
          t.key = SECRET_KEY /\ r.authorization = scheme \o <<t.text>> \o pad

PayloadCarried(r) ==
    (CHOOSE t \in SignedTokens : \E i \in 1..Len(r.authorization) :
                                      r.authorization[i] = t.text).payload

\* C15: authenticateJWT always calls next without an error and never throws;
\* it stores the payload in res.locals.user only for a header whose token
\* verifies against the secret key, and otherwise leaves res.locals as it was.
C15_AuthenticateNeverFails ==
    call.op = "authenticateJWT" =>
        /\ outcome = "returned"
        /\ steps = <<"next()">>
        /\ IF CarriesValidToken(req)
           THEN locals = Locals(TRUE, PayloadCarried(req))
           ELSE locals = before

C15_Witness ==
    /\ call.op = "authenticateJWT"
    /\ req.hasAuthorization
    /\ req.authorization = <<"Bearer ", "badJwt">>
    /\ locals = before
    /\ steps = <<"next()">>

\* C16: isAdmin calls next if and only if res.locals.user exists and its
\* isAdmin field is exactly true; otherwise it throws UnauthorizedError and
\* does not call next.
C16_IsAdminExactlyTrue ==
    call.op = "isAdmin" =>
        LET admin == before.hasUser /\ Get(before.user, "isAdmin") = Bool(TRUE)
        IN  /\ (steps = <<"next()">>) <=> admin
            /\ admin => outcome = "returned"
            /\ ~admin => outcome = "UnauthorizedError" /\ steps = <<>>

C16_Witness ==
    /\ call.op = "isAdmin"
    /\ before.hasUser
    /\ Get(before.user, "isAdmin") = Str("true")
    /\ outcome = "UnauthorizedError"
    /\ steps = <<>>

\* C17: isAdminOrCurrentUser calls next if and only if res.locals.user exists
\* and its username equals req.params.username or its isAdmin field is
\* exactly true; otherwise it throws UnauthorizedError and does not call next.
C17_AdminOrSameUser ==
    call.op = "isAdminOrCurrentUser" =>
        LET allowed == /\ before.hasUser
                       /\ \/ Get(before.user, "username") = Get(req.params, "username")
                          \/ Get(before.user, "isAdmin") = Bool(TRUE)
        IN  /\ (steps = <<"next()">>) <=> allowed
            /\ allowed => outcome = "returned"
            /\ ~allowed => outcome = "UnauthorizedError" /\ steps = <<>>

C17_Witness ==
    /\ call.op = "isAdminOrCurrentUser"
    /\ before.hasUser
    /\ Get(before.user, "username") = Str("test")
    /\ Get(before.user, "isAdmin") = Bool(FALSE)
    /\ Get(req.params, "username") = Str("test")
    /\ steps = <<"next()">>

MutatingRoutes ==
    {"POST /companies", "PATCH /companies/:handle", "DELETE /companies/:handle",
     "POST /jobs", "PATCH /jobs/:id", "DELETE /jobs/:id"}

ReadRoutes == {"GET /companies", "GET /companies/:handle", "GET /jobs", "GET /jobs/:id"}

ModelOps ==
    {"Company.create", "Company.findAll", "Company.get", "Company.update",
     "Company.remove", "Job.create", "Job.findAll", "Job.get", "Job.update",
     "Job.remove"}

\* The positions of a step log at which a model method was invoked.
Invoked(log) == {i \in 1..Len(log) : log[i] \in ModelOps}

\* Whether res.locals holds a user with a username and isAdmin === true.
Authorized(loc) ==
    /\ loc.hasUser
    /\ ToBoolean(Get(loc.user, "username"))
    /\ Get(loc.user, "isAdmin") = Bool(TRUE)

\* C18: on a mutating route of companies or jobs the model method is invoked
\* only after ensureLoggedIn and then isAdmin have passed, that is only when
\* res.locals.user has a username and isAdmin === true; every other request
\* ends in UnauthorizedError with no model method invoked, no query sent and
\* the tables unchanged. The GET routes run no authorization check.
C18_MutationsGuarded ==
    [][/\ (call = NoCall /\ call'.op \in MutatingRoutes \cup ReadRoutes) =>
             IF call'.op \in MutatingRoutes
             THEN /\ Invoked(steps') # {} =>
                        /\ Authorized(before')
                        /\ SubSeq(steps', 1, 2) = <<"ensureLoggedIn", "isAdmin">>
                        /\ \A i \in Invoked(steps') : i > 2
                  /\ ~Authorized(before') =>
                        /\ outcome' = "UnauthorizedError"
                        /\ Invoked(steps') = {}
                        /\ sent' = <<>>
                        /\ companies' = companies
                        /\ jobs' = jobs
             ELSE /\ \A i \in 1..Len(steps') :
                        steps'[i] \notin {"ensureLoggedIn", "isAdmin"}
                  /\ outcome' # "UnauthorizedError"
                  /\ Invoked(steps') = {} =>
                        steps'[Len(steps')] = "validate" /\ outcome' = "BadRequestError"
       /\ \A p \in Procs :
             (procs[p].pc = "idle" /\ procs'[p].pc = "awaiting") =>
                /\ procs'[p].op \in MutatingRoutes =>
                      /\ Authorized(procs'[p].locals)
                      /\ SubSeq(procs'[p].steps, 1, 2) = <<"ensureLoggedIn", "isAdmin">>
                      /\ Invoked(procs'[p].steps) # {}
                      /\ \A i \in Invoked(procs'[p].steps) : i > 2
                /\ procs'[p].op \in ReadRoutes =>
                      /\ procs'[p].steps = <<"Company.get">>
                      /\ ~Authorized(procs'[p].locals)
       /\ (companies' # companies \/ jobs' # jobs) =>
             \/ call' # call /\ call'.op \in MutatingRoutes /\ Authorized(before')
             \/ \E p \in Procs :
                   /\ procs'[p] # procs[p]
                   /\ procs[p].op \in MutatingRoutes
                   /\ Authorized(procs[p].locals)]_vars

C18_Witness ==
    /\ call.op = "DELETE /companies/:handle"
    /\ before.hasUser
    /\ Get(before.user, "username") = Str("test")
    /\ Get(before.user, "isAdmin") = Bool(FALSE)
    /\ steps = <<"ensureLoggedIn", "isAdmin">>
    /\ outcome = "UnauthorizedError"
    /\ call.key \in DOMAIN companies

\* The range error of a company listing: the comparison was the last thing
\* to run and the request ended in BadRequestError.
RangeError ==
    /\ steps # <<>>
    /\ steps[Len(steps)] = "min > max"
    /\ outcome = "BadRequestError"

\* A bound of the raw query that Number() turns into NaN.
NaNBound(query) ==
    \E k \in {"minEmployees", "maxEmployees"} :
        HasOwn(query, k) /\ ~IsNumeric(Get(query, k))

\* C19 as stated: in a company listing request the min > max comparison is
\* made before the step that converts and validates the query values, and a
\* bound that converts to NaN raises no range error.
C19_Original ==
    call.op = "GET /companies" =>
        /\ \A i, j \in 1..Len(steps) :
              steps[i] = "min > max" /\ steps[j] \in {"Number", "validate"} => i < j
        /\ NaNBound(call.data) => ~RangeError

\* C19 amended: in a company listing request the Number() conversions come
\* first, the validation second, and the min > max comparison last, as the
\* first statement of Company.findAll, reached only by a request that passed
\* validation; a bound that converts to NaN raises no range error, and the
\* range error is raised only for two numeric bounds with min above max.
C19_RangeCheckAfterValidation ==
    call.op = "GET /companies" =>
        /\ \/ steps = CompaniesCoerceSteps(call.data) \o <<"validate">>
           \/ steps = CompaniesCoerceSteps(call.data)
                          \o <<"validate", "Company.findAll", "min > max">>
        /\ \A i, j \in 1..Len(steps) :
              steps[i] = "min > max" /\ steps[j] \in {"Number", "validate"} => j < i
        /\ NaNBound(call.data) => ~RangeError
        /\ RangeError =>
              /\ IsNumeric(Get(call.data, "minEmployees"))
              /\ IsNumeric(Get(call.data, "maxEmployees"))
              /\ NumericOf(Get(call.data, "minEmployees"))
                     > NumericOf(Get(call.data, "maxEmployees"))

C19_Witness ==
    /\ call.op = "GET /companies"
    /\ Get(call.data, "minEmployees") = Str("3")
    /\ Get(call.data, "maxEmployees") = Str("2")
    /\ steps = <<"Number", "Number", "validate", "Company.findAll", "min > max">>
    /\ RangeError

\* C20: under every interleaving of concurrent Company.create calls for one
\* handle at most one call issues the INSERT for it and every other call ends
\* in BadRequestError; and under every interleaving of Job.create with
\* Company.remove no job row names a company that is not in the table.
C20_ConcurrentCreateSafe ==
    /\ \A p, q \in Procs :
          (/\ p # q
           /\ procs[p].op = "Company.create" /\ procs[q].op = "Company.create"
           /\ Get(procs[p].data, "handle") = Get(procs[q].data, "handle")
           /\ procs[p].pc = "done" /\ procs[q].pc = "done") =>
              /\ ~(Inserts(procs[p].sent) # {} /\ Inserts(procs[q].sent) # {})
              /\ Inserts(procs[q].sent) # {} => procs[p].status = "BadRequestError"
    /\ \A i \in DOMAIN jobs : jobs[i]["company_handle"] \in DOMAIN companies

====
